---- MODULE Spec2Model ----
\* Model of todoist_notifier_bot (src/main.py): the start-up identity
\* resolution, the polling loop, the two command handlers and the time
\* arithmetic, together with the two backends the program talks to.
EXTENDS Integers, Sequences, FiniteSets, TLC

VARIABLES
    api_projects,    \* task backend: what api.get_projects() returns
    api_tasks,       \* task backend: project id -> what api.get_tasks() returns
    tg_updates,      \* messaging backend: every inbound update so far
    clock,           \* wall clock at UTC+3, whole seconds since the first day
    pc,              \* position of the main program
    project_ids,     \* global dict name -> id, as a list of pairs in insertion order
    personal_ids,    \* global dict, key "Me" once resolved
    last_update_id,  \* global poll cursor
    updates,         \* local of the loop: the batch of the last get_updates
    upd_i,           \* index of the update process_new_updates is handling
    tasks,           \* local of the loop: result of get_all_my_tasks()
    task_i,          \* index into filter_tasks(tasks, "datetimed")
    outbox,          \* every message handed to the messaging backend, in order
    cycle,           \* history: number of the current loop iteration
    handled,         \* history: update ids handed to the handlers, in order
    tested,          \* history: minutes read by the membership test, this cycle
    last_error       \* history: the exception that ended the process, if any

vars == <<api_projects, api_tasks, tg_updates, clock, pc, project_ids,
          personal_ids, last_update_id, updates, upd_i, tasks, task_i,
          outbox, cycle, handled, tested, last_error>>

-----------------------------------------------------------------------------
\* Bounds of the exploration.

\* seconds the program spends outside time.sleep over a run
MaxDrift == 2
\* loop iterations explored
MaxCycles == 2
\* inbound messages the user sends over a run
MaxUpdates == 2
\* update_id the messaging backend gives the first inbound message
FirstUpdateId == 5

-----------------------------------------------------------------------------
\* Program constants.

MY_TELEGRAM_ID == 1001
OtherTelegramId == MY_TELEGRAM_ID + 1
timestamps_to_send_notifications == {10, 30, 60}
SleepSeconds == 60

-----------------------------------------------------------------------------
\* Time utility: ISO strings "YYYY-MM-DDTHH:MM:SS" and seconds.

\* the calendar days the model knows, in order
Dates == <<"2024-01-01", "2024-01-02">>
DigitChars == <<"0", "1", "2", "3", "4", "5", "6", "7", "8", "9">>

DigitVal(c) == (CHOOSE d \in 1..10 : DigitChars[d] = c) - 1
Num2(s) == 10 * DigitVal(SubSeq(s, 1, 1)) + DigitVal(SubSeq(s, 2, 2))
Pad2(n) == IF n < 10 THEN "0" \o ToString(n) ELSE ToString(n)
DayIndex(d) == (CHOOSE i \in 1..Len(Dates) : Dates[i] = d) - 1

\* datetime.datetime.fromisoformat(s) as seconds since Dates[1] 00:00:00
fromisoformat(s) ==
    DayIndex(SubSeq(s, 1, 10)) * 86400 + Num2(SubSeq(s, 12, 13)) * 3600
        + Num2(SubSeq(s, 15, 16)) * 60 + Num2(SubSeq(s, 18, 19))

\* now.strftime("%Y-%m-%dT%H:%M:%S")
strftime_iso(t) ==
    Dates[(t \div 86400) + 1] \o "T" \o Pad2((t % 86400) \div 3600) \o ":"
        \o Pad2((t % 3600) \div 60) \o ":" \o Pad2(t % 60)

\* get_current_time(): the wall clock at UTC+3 without sub-seconds
get_current_time(now) == strftime_iso(now)

\* datetime.date.today().strftime("%Y-%m-%d"); the system zone is taken to be
\* the author's UTC+3
today_str(now) == Dates[(now \div 86400) + 1]

\* get_time_to_task(task).total_seconds()
get_time_to_task(task, now) ==
    fromisoformat(task.due.datetime) - fromisoformat(get_current_time(now))

\* variant: floor division (seconds // 60) instead of int(seconds / 60)
get_time_to_task_in_minutes_floor(task, now) ==
    get_time_to_task(task, now) \div 60

\* int(x / 60): Python's int() of a float truncates toward zero
get_time_to_task_in_minutes(task, now) ==
    LET s == get_time_to_task(task, now)
    IN  IF s >= 0 THEN s \div 60 ELSE -((-s) \div 60)

-----------------------------------------------------------------------------
\* The task backend's data. A task's due descriptor is a record; set = FALSE
\* is Python's task.due = None and datetime = "" is task.due.datetime = None.

NoDue == [set |-> FALSE, date |-> "", datetime |-> ""]
DateOnly(d) == [set |-> TRUE, date |-> d, datetime |-> ""]
DateTime(dt) == [set |-> TRUE, date |-> SubSeq(dt, 1, 10), datetime |-> dt]

Task(id, content, due, creator, assignee) ==
    [id |-> id, content |-> content, due |-> due, creator_id |-> creator,
     assignee_id |-> assignee]

Standup == Task("t1", "Standup", DateTime("2024-01-01T09:30:00"), "U1", "")
Laundry == Task("t2", "Laundry", DateOnly("2024-01-02"), "U1", "")
Groceries == Task("t3", "Groceries", DateOnly("2024-01-01"), "U1", "")
Notes == Task("t4", "Notes", NoDue, "U1", "")
Call(dt) == Task("t5", "Call", DateTime(dt), "U2", "U1")
Review == Task("t6", "Review", DateTime("2024-01-01T10:20:30"), "U1", "U2")
Dentist == Task("t7", "Dentist", DateTime("2024-01-01T09:20:00"), "U2", "U2")

\* due instants tried for the task assigned to the user in the shared project
CallDues == {"2024-01-01T09:10:00", "2024-01-01T09:50:40"}
\* what the default project may hold at start-up
InboxTaskLists == {<<>>, <<Standup, Laundry, Groceries, Notes>>}
\* names the backend may give the default project (it is localised)
InboxNames == {"Inbox", "Eingang"}

Project(id, name, inbox) == [id |-> id, name |-> name, is_inbox_project |-> inbox]
ProjectLists ==
    UNION {{<<Project("p1", n, TRUE)>>,
            <<Project("p1", n, TRUE), Project("p2", "Work", FALSE)>>,
            <<Project("p2", "Work", FALSE), Project("p1", n, TRUE)>>}
           : n \in InboxNames}

\* texts the user may type, and who may type them
Texts == {"1", "today", "Segodnya"}
Senders == {MY_TELEGRAM_ID, OtherTelegramId}

\* the instant the process starts
StartClock == fromisoformat("2024-01-01T09:19:59")

-----------------------------------------------------------------------------
\* Python dicts with insertion order: a list of <<key, value>> pairs.

DictKeys(d) == {d[i][1] : i \in 1..Len(d)}
DictGet(d, k) == d[CHOOSE i \in 1..Len(d) : d[i][1] = k][2]
DictSet(d, k, v) ==
    IF k \in DictKeys(d)
    THEN [i \in 1..Len(d) |-> IF d[i][1] = k THEN <<k, v>> ELSE d[i]]
    ELSE Append(d, <<k, v>>)

RECURSIVE Concat(_)
Concat(ss) == IF ss = <<>> THEN <<>> ELSE Head(ss) \o Concat(Tail(ss))

-----------------------------------------------------------------------------
\* Task repository adapter and task filter.

\* the tasks one project contributes to get_all_my_tasks()
tasks_of_project(name, id, me, api) ==
    IF name = "Inbox"
    THEN api[id]
    ELSE SelectSeq(api[id], LAMBDA task : task.assignee_id = me)

get_all_my_tasks(pids, pers, api) ==
    Concat([i \in 1..Len(pids) |->
               tasks_of_project(pids[i][1], pids[i][2], pers["Me"], api)])

is_dated(task) == task.due.set /\ task.due.datetime = ""
is_datetimed(task) == task.due.set /\ task.due.datetime # ""
is_today(task, now) == task.due.set /\ task.due.date = today_str(now)

filter_tasks(list_of_tasks, mode, now) ==
    CASE mode = "dated" -> SelectSeq(list_of_tasks, is_dated)
      [] mode = "datetimed" -> SelectSeq(list_of_tasks, is_datetimed)
      [] mode = "today" -> SelectSeq(list_of_tasks, LAMBDA t : is_today(t, now))

-----------------------------------------------------------------------------
\* Initial state: the module-level globals of main.py before init_ids() runs,
\* and one choice of what the two backends hold.

Init ==
    /\ api_projects \in ProjectLists
    /\ \E inbox \in InboxTaskLists, dt \in CallDues :
          api_tasks = [p \in {api_projects[i].id : i \in 1..Len(api_projects)} |->
                          IF p = "p1" THEN inbox ELSE <<Call(dt), Review, Dentist>>]
    /\ tg_updates = <<>>
    /\ clock = StartClock
    /\ pc = "init"
    /\ project_ids = <<>>
    /\ personal_ids = [k \in {} |-> ""]
    /\ last_update_id = 0
    /\ updates = <<>>
    /\ upd_i = 0
    /\ tasks = <<>>
    /\ task_i = 0
    /\ outbox = <<>>
    /\ cycle = 0
    /\ handled = <<>>
    /\ tested = <<>>
    /\ last_error = ""

-----------------------------------------------------------------------------
\* init_ids()

\* variant: the first task's assignee instead of its creator
resolve_me_assignee(inbox_tasks) == inbox_tasks[1].assignee_id

\* the identity taken from the default project's tasks
resolve_me(inbox_tasks) == inbox_tasks[1].creator_id

RECURSIVE init_ids_loop(_, _, _, _)
init_ids_loop(prjs, pids, pers, api) ==
    IF prjs = <<>>
    THEN [project_ids |-> pids, personal_ids |-> pers, error |-> ""]
    ELSE LET prj == Head(prjs)
             pids2 == DictSet(pids, prj.name, prj.id)
             found == api[DictGet(pids2, prj.name)]
         IN  IF ~prj.is_inbox_project
             THEN init_ids_loop(Tail(prjs), pids2, pers, api)
             ELSE IF found = <<>>
             THEN [project_ids |-> pids2, personal_ids |-> pers,
                   error |-> "IndexError"]
             ELSE init_ids_loop(Tail(prjs), pids2,
                      [k \in DOMAIN pers \cup {"Me"} |->
                          IF k = "Me" THEN resolve_me(found) ELSE pers[k]], api)

InitIds ==
    /\ pc = "init"
    /\ LET r == init_ids_loop(api_projects, project_ids, personal_ids, api_tasks)
       IN  /\ project_ids' = r.project_ids
           /\ personal_ids' = r.personal_ids
           /\ last_error' = r.error
           /\ pc' = IF r.error = "" THEN "get_updates" ELSE "aborted"
    /\ cycle' = IF pc' = "get_updates" THEN 1 ELSE cycle
    /\ UNCHANGED <<api_projects, api_tasks, tg_updates, clock, last_update_id,
                   updates, upd_i, tasks, task_i, outbox, handled, tested>>

-----------------------------------------------------------------------------
\* The environment: the user types a message, the wall clock advances.

\* A message typed at any moment is first seen by the next get_updates, so
\* arrivals are taken just before it.
UserSends ==
    /\ pc = "get_updates"
    /\ Len(tg_updates) < MaxUpdates
    /\ \E who \in Senders, text \in Texts :
          tg_updates' = Append(tg_updates,
              [update_id |-> FirstUpdateId + Len(tg_updates),
               from_id |-> who, text |-> text])
    /\ UNCHANGED <<api_projects, api_tasks, clock, pc, project_ids, personal_ids,
                   last_update_id, updates, upd_i, tasks, task_i, outbox, cycle,
                   handled, tested, last_error>>

\* Time that passes anywhere is first seen by the next reading of the clock,
\* so it is taken just before the two readings of the notifying step.
Tick ==
    /\ pc \in {"notify", "send"}
    /\ clock - StartClock - SleepSeconds * (cycle - 1) < MaxDrift
    /\ clock' = clock + 1
    /\ UNCHANGED <<api_projects, api_tasks, tg_updates, pc, project_ids,
                   personal_ids, last_update_id, updates, upd_i, tasks, task_i,
                   outbox, cycle, handled, tested, last_error>>

-----------------------------------------------------------------------------
\* The loop: fetching messages.

\* bot.get_updates(offset): the stored updates from offset on, oldest first
get_updates(offset, server) == SelectSeq(server, LAMBDA u : u.update_id >= offset)

\* variant: the first update of the batch instead of the last
next_cursor_first(batch) == batch[1].update_id

\* the cursor after a non-empty batch
next_cursor(batch) == batch[Len(batch)].update_id

GetUpdates ==
    /\ pc = "get_updates"
    /\ updates' = get_updates(last_update_id + 1, tg_updates)
    /\ IF Len(updates') > 0
       THEN /\ last_update_id' = next_cursor(updates')
            /\ upd_i' = 1
            /\ pc' = "dispatch"
       ELSE /\ pc' = "get_tasks"
            /\ UNCHANGED <<last_update_id, upd_i>>
    /\ UNCHANGED <<api_projects, api_tasks, tg_updates, clock, project_ids,
                   personal_ids, tasks, task_i, outbox, cycle, handled, tested,
                   last_error>>

-----------------------------------------------------------------------------
\* Messages handed to the messaging backend. origin is history: which code
\* path sent the message and what it had read.

NoOrigin == [update_id |-> 0, task_id |-> "", content |-> "", cycle |-> 0,
             test_minutes |-> 0, listed |-> <<>>]

\* bot.reply_to(message, text)
reply_to(u, text, origin) ==
    [method |-> "reply_to", chat_id |-> u.from_id, reply_to |-> u.update_id,
     text |-> text, origin |-> origin]

\* bot.send_message(chat_id, text)
send_message(chat_id, text, origin) ==
    [method |-> "send_message", chat_id |-> chat_id, reply_to |-> 0,
     text |-> text, origin |-> origin]

-----------------------------------------------------------------------------
\* The loop: dispatching the batch to the command handlers
\* (bot.process_new_updates runs the first handler whose filter accepts).

\* variant: the liveness filter without the sender check
alive_filter_any_sender(msg) == msg.text = "1"

alive_filter(msg) == msg.from_id = MY_TELEGRAM_ID /\ msg.text = "1"

today_filter(msg) ==
    msg.from_id = MY_TELEGRAM_ID /\ (msg.text = "today" \/ msg.text = "Segodnya")

\* variant: the slice [11:19], which keeps the seconds
today_line_with_seconds(task) ==
    IF task.due.datetime # ""
    THEN task.content \o "    " \o SubSeq(task.due.datetime, 12, 19) \o "\n"
    ELSE task.content \o "\n"

\* one line of the today list; Python's [11:16] is characters 12..16
today_line(task) ==
    IF task.due.datetime # ""
    THEN task.content \o "    " \o SubSeq(task.due.datetime, 12, 16) \o "\n"
    ELSE task.content \o "\n"

RECURSIVE today_str_to_send(_)
today_str_to_send(today_tasks) ==
    IF today_tasks = <<>>
    THEN ""
    ELSE today_line(Head(today_tasks)) \o today_str_to_send(Tail(today_tasks))

\* the handlers return to process_new_updates, which takes the next update
AfterUpdate ==
    /\ handled' = Append(handled, updates[upd_i].update_id)
    /\ upd_i' = upd_i + 1
    /\ pc' = IF upd_i >= Len(updates) THEN "get_tasks" ELSE "dispatch"

Dispatching == pc = "dispatch" /\ upd_i \in 1..Len(updates)

TellThatBotIsAlive ==
    /\ Dispatching
    /\ alive_filter(updates[upd_i])
    /\ outbox' = Append(outbox,
          reply_to(updates[upd_i], "Alive",
                   [NoOrigin EXCEPT !.update_id = updates[upd_i].update_id]))
    /\ AfterUpdate
    /\ UNCHANGED <<api_projects, api_tasks, tg_updates, clock, project_ids,
                   personal_ids, last_update_id, updates, tasks, task_i, cycle,
                   tested, last_error>>

SendTodayTasks ==
    /\ Dispatching
    /\ ~alive_filter(updates[upd_i])
    /\ today_filter(updates[upd_i])
    /\ LET today_tasks ==
               filter_tasks(get_all_my_tasks(project_ids, personal_ids, api_tasks),
                            "today", clock)
       IN  outbox' = Append(outbox,
               send_message(MY_TELEGRAM_ID, today_str_to_send(today_tasks),
                            [NoOrigin EXCEPT !.update_id = updates[upd_i].update_id,
                                             !.listed = today_tasks]))
    /\ AfterUpdate
    /\ UNCHANGED <<api_projects, api_tasks, tg_updates, clock, project_ids,
                   personal_ids, last_update_id, updates, tasks, task_i, cycle,
                   tested, last_error>>

\* a task-backend call of the handler raises: nothing catches it
SendTodayTasksFails ==
    /\ Dispatching
    /\ ~alive_filter(updates[upd_i])
    /\ today_filter(updates[upd_i])
    /\ handled' = Append(handled, updates[upd_i].update_id)
    /\ pc' = "crashed"
    /\ last_error' = "HandlerBackendError"
    /\ UNCHANGED <<api_projects, api_tasks, tg_updates, clock, project_ids,
                   personal_ids, last_update_id, updates, upd_i, tasks, task_i,
                   outbox, cycle, tested>>

\* no handler accepts the message
DropUpdate ==
    /\ Dispatching
    /\ ~alive_filter(updates[upd_i])
    /\ ~today_filter(updates[upd_i])
    /\ AfterUpdate
    /\ UNCHANGED <<api_projects, api_tasks, tg_updates, clock, project_ids,
                   personal_ids, last_update_id, updates, tasks, task_i, outbox,
                   cycle, tested, last_error>>

-----------------------------------------------------------------------------
\* The loop: fetching tasks, notifying, sleeping.

datetimed_tasks == filter_tasks(tasks, "datetimed", clock)

\* where the for loop over the datetimed tasks goes after task number i of n
after_task(i, n) == IF i >= n THEN "sleep" ELSE "notify"

GetTasks ==
    /\ pc = "get_tasks"
    /\ tasks' = get_all_my_tasks(project_ids, personal_ids, api_tasks)
    /\ task_i' = 1
    /\ tested' = <<>>
    /\ pc' = after_task(0, Len(filter_tasks(tasks', "datetimed", clock)))
    /\ UNCHANGED <<api_projects, api_tasks, tg_updates, clock, project_ids,
                   personal_ids, last_update_id, updates, upd_i, outbox, cycle,
                   handled, last_error>>

\* a task-backend call of get_all_my_tasks() raises: nothing catches it, the
\* process ends with the traceback
GetTasksFails ==
    /\ pc = "get_tasks"
    /\ pc' = "crashed"
    /\ last_error' = "BackendError"
    /\ UNCHANGED <<api_projects, api_tasks, tg_updates, clock, project_ids,
                   personal_ids, last_update_id, updates, upd_i, tasks, task_i,
                   outbox, cycle, handled, tested>>

\* the membership test of line 190, with its own reading of the clock
NotifyTest ==
    /\ pc = "notify"
    /\ LET task == datetimed_tasks[task_i]
           m == get_time_to_task_in_minutes(task, clock)
       IN  /\ tested' = Append(tested, m)
           /\ IF m \in timestamps_to_send_notifications
              THEN pc' = "send" /\ task_i' = task_i
              ELSE /\ pc' = after_task(task_i, Len(datetimed_tasks))
                   /\ task_i' = task_i + 1
    /\ UNCHANGED <<api_projects, api_tasks, tg_updates, clock, project_ids,
                   personal_ids, last_update_id, updates, upd_i, tasks, outbox,
                   cycle, handled, last_error>>

reminder_text(content, minutes) ==
    content \o " in " \o ToString(minutes) \o " minutes"

\* the send of lines 191-194, which reads the clock again for the text
NotifySend ==
    /\ pc = "send"
    /\ LET task == datetimed_tasks[task_i]
       IN  outbox' = Append(outbox,
               send_message(MY_TELEGRAM_ID,
                   reminder_text(task.content,
                                 get_time_to_task_in_minutes(task, clock)),
                   [NoOrigin EXCEPT !.task_id = task.id,
                                    !.content = task.content,
                                    !.cycle = cycle,
                                    !.test_minutes = tested[Len(tested)]]))
    /\ pc' = after_task(task_i, Len(datetimed_tasks))
    /\ task_i' = task_i + 1
    /\ UNCHANGED <<api_projects, api_tasks, tg_updates, clock, project_ids,
                   personal_ids, last_update_id, updates, upd_i, tasks, cycle,
                   handled, tested, last_error>>

\* variant: a sleep of half the cadence
Sleep_half ==
    /\ pc = "sleep"
    /\ cycle < MaxCycles
    /\ clock' = clock + (SleepSeconds \div 2)
    /\ cycle' = cycle + 1
    /\ pc' = "get_updates"
    /\ UNCHANGED <<api_projects, api_tasks, tg_updates, project_ids, personal_ids,
                   last_update_id, updates, upd_i, tasks, task_i, outbox, handled,
                   tested, last_error>>

\* time.sleep(60), then the next iteration
Sleep ==
    /\ pc = "sleep"
    /\ cycle < MaxCycles
    /\ clock' = clock + SleepSeconds
    /\ cycle' = cycle + 1
    /\ pc' = "get_updates"
    /\ UNCHANGED <<api_projects, api_tasks, tg_updates, project_ids, personal_ids,
                   last_update_id, updates, upd_i, tasks, task_i, outbox, handled,
                   tested, last_error>>

-----------------------------------------------------------------------------

Next ==
    \/ InitIds
    \/ UserSends
    \/ Tick
    \/ GetUpdates
    \/ TellThatBotIsAlive
    \/ SendTodayTasks
    \/ SendTodayTasksFails
    \/ DropUpdate
    \/ GetTasks
    \/ GetTasksFails
    \/ NotifyTest
    \/ NotifySend
    \/ Sleep

Spec == Init /\ [][Next]_vars

-----------------------------------------------------------------------------
\* Vocabulary of the properties.

LeadTimes == {10, 30, 60}
Reminders == {i \in 1..Len(outbox) : outbox[i].origin.task_id # ""}
CommandReplies == {i \in 1..Len(outbox) : outbox[i].origin.update_id # 0}
AllBackendTasks == UNION {{api_tasks[p][i] : i \in 1..Len(api_tasks[p])} : p \in DOMAIN api_tasks}
DefaultProject == CHOOSE i \in 1..Len(api_projects) : api_projects[i].is_inbox_project
DefaultTasks == api_tasks[api_projects[DefaultProject].id]
UpdateById(id) == tg_updates[CHOOSE i \in 1..Len(tg_updates) : tg_updates[i].update_id = id]
NoDuplicates(seq) == \A i, j \in 1..Len(seq) : seq[i] = seq[j] => i = j
\* seconds from the clock to a task's due instant, by plain arithmetic
SecondsTo(task) == fromisoformat(task.due.datetime) - clock
NotifyingDone == pc = "sleep"

-----------------------------------------------------------------------------
\* C1: in the notifying step every datetimed task whose whole-minute remaining
\* time is a lead time gets exactly one reminder "<content> in <minutes>
\* minutes" carrying that remaining time, and a task whose remaining time is no
\* lead time gets none.
C1_OneReminderPerLeadTime ==
    /\ \A i \in Reminders :
          LET o == outbox[i].origin
          IN  /\ o.test_minutes \in LeadTimes
              /\ outbox[i].text = reminder_text(o.content, o.test_minutes)
              /\ \A j \in Reminders :
                    (outbox[j].origin.task_id = o.task_id
                        /\ outbox[j].origin.cycle = o.cycle) => j = i
    /\ NotifyingDone =>
          \A k \in 1..Len(tested) :
             tested[k] \in LeadTimes =>
                \E i \in Reminders :
                    /\ outbox[i].origin.task_id = datetimed_tasks[k].id
                    /\ outbox[i].origin.cycle = cycle

\* C2: every reminder ever sent reads "<content> in <N> minutes" with N one
\* of the lead times 10, 30, 60.
C2_ReminderNamesLeadTime ==
    \A i \in Reminders :
       \E n \in LeadTimes :
          outbox[i].text = reminder_text(outbox[i].origin.content, n)

\* what get_all_my_tasks() is to return: every task of the project flagged as
\* the default one, and of any other project the tasks assigned to the user
OwnedTasks ==
    Concat([i \in 1..Len(project_ids) |->
        LET id == project_ids[i][2]
            flagged == \E j \in 1..Len(api_projects) :
                          api_projects[j].id = id /\ api_projects[j].is_inbox_project
        IN  IF flagged
            THEN api_tasks[id]
            ELSE SelectSeq(api_tasks[id],
                           LAMBDA t : t.assignee_id = resolve_me(DefaultTasks))])

\* C3: the tasks a cycle fetched are all tasks of the default project plus, of
\* every other project, exactly the tasks assigned to the user, whatever the
\* default project is called.
C3_FetchesOwnedTasks ==
    pc \in {"notify", "send", "sleep"} => tasks = OwnedTasks

\* C4: a backend failure while the loop fetches the tasks ends only the
\* cycle: the loop goes on to sleep and never terminates because of it.
C4_FetchFailureKeepsLooping ==
    last_error = "BackendError" => pc \in {"sleep", "get_updates"}

\* C5: with a task in the default project the identity is the creator of its
\* first task; with none, start-up aborts, no identity is set and the loop is
\* never entered.
C5_IdentityOrAbort ==
    /\ pc \notin {"init", "aborted"} =>
          /\ DefaultTasks # <<>>
          /\ DOMAIN personal_ids = {"Me"}
          /\ personal_ids["Me"] = DefaultTasks[1].creator_id
    /\ DefaultTasks = <<>> =>
          /\ pc \in {"init", "aborted"}
          /\ DOMAIN personal_ids = {}
          /\ cycle = 0 /\ last_update_id = 0 /\ updates = <<>> /\ handled = <<>>
          /\ tasks = <<>> /\ outbox = <<>>
    /\ pc = "aborted" => DefaultTasks = <<>> /\ last_error = "IndexError"

C5_Witness ==
    pc = "aborted" /\ DefaultTasks = <<>> /\ Len(project_ids) >= 1

-----------------------------------------------------------------------------
\* C6: a handled message from the configured recipient with text "1" has
\* exactly one outbound message, a reply to it reading "Alive"; a handled
\* message from any other sender has no outbound message at all.
C6_DispatchGatedOnSender ==
    /\ \A i \in CommandReplies :
          UpdateById(outbox[i].origin.update_id).from_id = MY_TELEGRAM_ID
    /\ \A k \in 1..Len(handled) :
          LET u == UpdateById(handled[k])
              sent == {i \in CommandReplies : outbox[i].origin.update_id = u.update_id}
          IN  /\ u.from_id # MY_TELEGRAM_ID => sent = {}
              /\ (u.from_id = MY_TELEGRAM_ID /\ u.text = "1") =>
                    /\ Cardinality(sent) = 1
                    /\ \A i \in sent :
                          /\ outbox[i].method = "reply_to"
                          /\ outbox[i].reply_to = u.update_id
                          /\ outbox[i].chat_id = u.from_id
                          /\ outbox[i].text = "Alive"

C6_Witness ==
    /\ \E k \in 1..Len(handled) :
          /\ UpdateById(handled[k]).from_id = MY_TELEGRAM_ID
          /\ UpdateById(handled[k]).text = "1"
          /\ \E i \in CommandReplies : outbox[i].reply_to = handled[k]
    /\ \E k \in 1..Len(handled) :
          /\ UpdateById(handled[k]).from_id = OtherTelegramId
          /\ UpdateById(handled[k]).text = "1"

-----------------------------------------------------------------------------
\* The today list as the specification words it.

HourMinute(task) ==
    LET t == fromisoformat(task.due.datetime)
    IN  Pad2((t % 86400) \div 3600) \o ":" \o Pad2((t % 3600) \div 60)

ListedLine(task) ==
    IF is_datetimed(task)
    THEN task.content \o "    " \o HourMinute(task)
    ELSE task.content

RECURSIVE NewlineJoined(_)
NewlineJoined(ts) ==
    IF ts = <<>> THEN ""
    ELSE IF Len(ts) = 1 THEN ListedLine(ts[1])
    ELSE ListedLine(ts[1]) \o "\n" \o NewlineJoined(Tail(ts))

RECURSIVE NewlineTerminated(_)
NewlineTerminated(ts) ==
    IF ts = <<>> THEN ""
    ELSE ListedLine(ts[1]) \o "\n" \o NewlineTerminated(Tail(ts))

TodayMessages == {i \in CommandReplies : outbox[i].method = "send_message"}
DueToday(task) == task.due.set /\ task.due.date = Dates[(clock \div 86400) + 1]

-----------------------------------------------------------------------------
\* C8: the minutes to a task are the whole seconds to its due instant
\* divided by 60 and truncated toward zero: 599 s gives 9, 600 s gives 10 and
\* 601 s past due gives -10.
C8_MinutesTruncateTowardZero ==
    \A task \in AllBackendTasks :
       is_datetimed(task) =>
          LET s == SecondsTo(task)
              m == get_time_to_task_in_minutes(task, clock)
          IN  /\ s >= 0 => (m >= 0 /\ 60 * m <= s /\ s < 60 * m + 60)
              /\ s <= 0 => (m <= 0 /\ 60 * m >= s /\ s > 60 * m - 60)
              /\ s = 599 => m = 9
              /\ s = 600 => m = 10
              /\ s = -601 => m = -10

C8_Witness ==
    \E k \in 1..Len(tested) :
       /\ k <= Len(datetimed_tasks)
       /\ SecondsTo(datetimed_tasks[k]) = -601
       /\ tested[k] = -10

-----------------------------------------------------------------------------
\* The poll cursor, step by step.

MaxUpdateId(batch) ==
    CHOOSE m \in {batch[i].update_id : i \in 1..Len(batch)} :
       \A i \in 1..Len(batch) : batch[i].update_id <= m

C9_Step ==
    /\ pc = "init" => last_update_id = 0
    /\ last_update_id' >= last_update_id
    /\ pc # "get_updates" => last_update_id' = last_update_id
    /\ (pc = "get_updates" /\ pc' # "get_updates") =>
          /\ \A i \in 1..Len(updates') : updates'[i].update_id > last_update_id
          /\ updates' = <<>> => last_update_id' = last_update_id
          /\ updates' # <<>> => last_update_id' = MaxUpdateId(updates')
    /\ NoDuplicates(handled')

\* C9: the cursor starts at zero, never decreases, is left alone by an empty
\* batch and by every step but the fetch, equals the highest update id of a
\* non-empty batch, every fetched id is above the cursor of the request, and
\* no update is handed to the handlers twice.
C9_CursorOnlyAdvances == [][C9_Step]_vars

C9_Witness ==
    /\ Len(updates) = 2
    /\ last_update_id = updates[2].update_id
    /\ handled = <<updates[1].update_id, updates[2].update_id>>
    /\ cycle >= 2

-----------------------------------------------------------------------------
\* C10: over the whole run a task gets each reminder "<content> in L minutes",
\* L a lead time, at most once.
C10_AtMostOneReminderPerLeadTime ==
    \A t \in AllBackendTasks, n \in LeadTimes :
       Cardinality({i \in Reminders :
                       /\ outbox[i].origin.task_id = t.id
                       /\ outbox[i].text = reminder_text(t.content, n)}) <= 1

C10_Witness ==
    /\ cycle >= 2
    /\ NotifyingDone
    /\ \E k \in 1..Len(tested) :
          /\ datetimed_tasks[k].id = Standup.id
          /\ tested[k] = 9
    /\ \E i \in Reminders :
          /\ outbox[i].text = "Standup in 10 minutes"
          /\ outbox[i].origin.cycle = cycle - 1

====
